---- MODULE Spec2Model ----
(***************************************************************************)
(* Model of the replicate-api-proxy: an OpenAI-compatible chat-completions *)
(* endpoint in front of the Replicate API.  The model covers the request   *)
(* router and handler (controllers.ts), the message normalizer             *)
(* (message-processor.ts), the upstream dispatcher with key rotation and   *)
(* retry (api-service.ts) and the SSE encoder (utils.ts, controllers.ts).  *)
(*                                                                         *)
(* Strings are sequences of atoms; an atom is a character or an opaque     *)
(* non-empty substring (a role name, the anti-echo directive).  The empty  *)
(* string is the empty sequence, so JavaScript truthiness of a string is   *)
(* "the sequence is not empty".                                            *)
(***************************************************************************)
EXTENDS Integers, Sequences, FiniteSets, TLC

(***************************************************************************)
(* Bounds of the model.                                                    *)
(***************************************************************************)
\* largest number of configured upstream API keys
MaxPool == 4
\* upstream events delivered to a request running alone, over all attempts
MaxEvents == 3
\* upstream events delivered in one run of concurrent requests
MaxSharedEvents == 1
\* longest conversation drawn for one request
MaxMsgs == 2

\* longest content-item array of a message
MaxItems == 2
\* seconds the clock advances while responses are produced
MaxClock == 1

\* the concurrently running requests
Reqs == {1, 2}

Min(a, b) == IF a < b THEN a ELSE b

Last(s) == s[Len(s)]

(***************************************************************************)
(* Strings.                                                                *)
(***************************************************************************)
NL == "\n"
SP == " "

IsWhitespace(c) == c \in {SP, NL}

RECURSIVE trimStart(_)
trimStart(s) ==
    IF s = <<>> THEN <<>>
    ELSE IF IsWhitespace(Head(s)) THEN trimStart(Tail(s)) ELSE s

RECURSIVE trimEnd(_)
trimEnd(s) ==
    IF s = <<>> THEN <<>>
    ELSE IF IsWhitespace(Last(s)) THEN trimEnd(SubSeq(s, 1, Len(s) - 1)) ELSE s

\* String.prototype.trim
trim(s) == trimEnd(trimStart(s))

\* Array.prototype.join over an array of strings
RECURSIVE join(_, _)
join(parts, sep) ==
    IF parts = <<>> THEN <<>>
    ELSE IF Len(parts) = 1 THEN parts[1]
    ELSE parts[1] \o sep \o join(Tail(parts), sep)

\* gpt-tokenizer encode: the token sequence of a text.  The tokenizer merges
\* a run of equal atoms into one token, so the count is not additive over
\* concatenation.
RECURSIVE encode(_)
encode(text) ==
    IF text = <<>> THEN <<>>
    ELSE IF Len(text) >= 2 /\ text[1] = text[2] THEN encode(Tail(text))
    ELSE <<Head(text)>> \o encode(Tail(text))

\* a special token of the vocabulary, which encode does not accept in a text
SpecialToken == "<|endoftext|>"

\* the error encode raises
TokenizerError == -1

\* encode throws on a text that holds a special token
encodeThrows(text) == \E i \in 1..Len(text) : text[i] = SpecialToken

(***************************************************************************)
(* Messages (types.ts Message, ContentItem).  A message's content is a     *)
(* string (isArray = FALSE, str) or an array of items (isArray = TRUE).    *)
(***************************************************************************)
TextItem(t) == [type |-> "text", text |-> t, url |-> <<>>]
ImageItem(u) == [type |-> "image_url", text |-> <<>>, url |-> u]

StrMsg(role, s) ==
    [isNull |-> FALSE, role |-> role, isArray |-> FALSE, str |-> s, items |-> <<>>]
ArrMsg(role, its) ==
    [isNull |-> FALSE, role |-> role, isArray |-> TRUE, str |-> <<>>, items |-> its]

\* a null element of the messages array
NullMsg ==
    [isNull |-> TRUE, role |-> "", isArray |-> FALSE, str |-> <<>>, items |-> <<>>]

\* the anti-echo directive, an opaque constant of the source
antiSelfDialoguePrompt == <<"directive">>
antiEchoLine == <<"[directive]", NL>>

\* messages.filter(msg => msg.role === "system")
RECURSIVE systemMessagesOf(_)
systemMessagesOf(messages) ==
    IF messages = <<>> THEN <<>>
    ELSE (IF Head(messages).role = "system" THEN <<Head(messages)>> ELSE <<>>)
         \o systemMessagesOf(Tail(messages))

\* messages.filter(msg => msg.role !== "system")
RECURSIVE nonSystemMessagesOf(_)
nonSystemMessagesOf(messages) ==
    IF messages = <<>> THEN <<>>
    ELSE (IF Head(messages).role # "system" THEN <<Head(messages)>> ELSE <<>>)
         \o nonSystemMessagesOf(Tail(messages))

RECURSIVE sysItemsText(_)
sysItemsText(items) ==
    IF items = <<>> THEN <<>>
    ELSE (IF Head(items).type = "text" /\ Head(items).text # <<>>
          THEN Head(items).text \o <<NL>> ELSE <<>>)
         \o sysItemsText(Tail(items))

RECURSIVE sysText(_)
sysText(systemMessages) ==
    IF systemMessages = <<>> THEN <<>>
    ELSE (IF ~Head(systemMessages).isArray
          THEN Head(systemMessages).str \o <<NL>>
          ELSE sysItemsText(Head(systemMessages).items))
         \o sysText(Tail(systemMessages))

\* extractSystemPrompt: the prompt and the working copy after the call
extractSystemPrompt(messages) ==
    LET systemMessages == systemMessagesOf(messages)
    IN  [systemPrompt |-> trim(sysText(systemMessages)),
         messages |-> IF Len(systemMessages) > 0
                      THEN nonSystemMessagesOf(messages) ELSE messages]

RECURSIVE itemUrls(_)
itemUrls(items) ==
    IF items = <<>> THEN <<>>
    ELSE (IF Head(items).type = "image_url" /\ Head(items).url # <<>>
          THEN <<Head(items).url>> ELSE <<>>)
         \o itemUrls(Tail(items))

RECURSIVE textOnlyContent(_)
textOnlyContent(items) ==
    IF items = <<>> THEN <<>>
    ELSE (IF Head(items).type = "image_url" /\ Head(items).url # <<>>
          THEN <<>>
          ELSE IF Head(items).type = "text" THEN <<Head(items)>> ELSE <<>>)
         \o textOnlyContent(Tail(items))

\* extractImageUrls: the urls pushed and the working copy after the call
RECURSIVE extractImageUrls(_)
extractImageUrls(messages) ==
    IF messages = <<>> THEN [imageUrls |-> <<>>, messages |-> <<>>]
    ELSE LET m == Head(messages)
             rest == extractImageUrls(Tail(messages))
             hit == m.role = "user" /\ m.isArray
         IN  [imageUrls |-> (IF hit THEN itemUrls(m.items) ELSE <<>>)
                            \o rest.imageUrls,
              messages |-> <<IF hit
                             THEN [m EXCEPT !.items = textOnlyContent(m.items)]
                             ELSE m>> \o rest.messages]

\* content.filter(item => item.type === "text").map(item => item.text || "")
RECURSIVE textParts(_)
textParts(items) ==
    IF items = <<>> THEN <<>>
    ELSE (IF Head(items).type = "text" THEN <<Head(items).text>> ELSE <<>>)
         \o textParts(Tail(items))

\* one message's line in formatMessagesToConversation
formatLine(message) ==
    IF message.role # "" /\ (message.isArray \/ message.str # <<>>)
    THEN <<message.role, ":", SP>>
         \o (IF message.isArray
             THEN join(textParts(message.items), <<SP>>)
             ELSE message.str)
         \o <<NL>>
    ELSE <<>>

RECURSIVE formatLines(_)
formatLines(messages) ==
    IF messages = <<>> THEN <<>>
    ELSE formatLine(Head(messages)) \o formatLines(Tail(messages))

\* variant: the directive line follows every conversation
formatMessagesToConversation_AlwaysDirective(messages) ==
    formatLines(messages) \o antiEchoLine

formatMessagesToConversation(messages) ==
    LET formattedContent == formatLines(messages)
    IN  IF formattedContent # <<>> /\ Len(messages) > 0
           /\ Last(messages).role = "user"
        THEN formattedContent \o antiEchoLine
        ELSE formattedContent

\* JSON.parse(JSON.stringify(messages)): a fresh graph rebuilt field by field
copyItem(item) == [type |-> item.type, text |-> item.text, url |-> item.url]

copyMessage(message) ==
    [isNull |-> message.isNull, role |-> message.role,
     isArray |-> message.isArray, str |-> message.str,
     items |-> [i \in 1..Len(message.items) |-> copyItem(message.items[i])]]

deepCopy(messages) == [i \in 1..Len(messages) |-> copyMessage(messages[i])]

\* msg.role on a null element raises a TypeError in the filter of
\* extractSystemPrompt
readsNullMessage(messages) == \E i \in 1..Len(messages) : messages[i].isNull

\* variant: the normalizer works on the caller's array itself
messagesClone_Alias == "caller"

\* the graph the normalizer works on: the copy, not requestBody.messages
messagesClone == "clone"

\* processMessages on a request body; userContent is undefined when
\* hasContent is FALSE.  The two graphs are kept apart: extractSystemPrompt
\* and extractImageUrls write into the graph they are handed, and `messages`
\* is requestBody.messages as the call leaves it.
processMessages(requestBody) ==
    IF ~requestBody.hasMessages \/ Len(requestBody.messages) = 0
    THEN [hasContent |-> FALSE, userContent |-> <<>>, systemPrompt |-> <<>>,
          imageUrls |-> <<>>, messages |-> requestBody.messages]
    ELSE IF readsNullMessage(deepCopy(requestBody.messages))
    THEN \* the catch block: nothing was written before the fault
         [hasContent |-> FALSE, userContent |-> <<>>, systemPrompt |-> <<>>,
          imageUrls |-> <<>>, messages |-> requestBody.messages]
    ELSE LET heap == [caller |-> requestBody.messages,
                      clone |-> deepCopy(requestBody.messages)]
             sys == extractSystemPrompt(heap[messagesClone])
             afterSys == [heap EXCEPT ![messagesClone] = sys.messages]
             img == extractImageUrls(afterSys[messagesClone])
             afterImg == [afterSys EXCEPT ![messagesClone] = img.messages]
         IN  [hasContent |-> TRUE,
              userContent |->
                  formatMessagesToConversation(afterImg[messagesClone]),
              systemPrompt |-> sys.systemPrompt,
              imageUrls |-> img.imageUrls,
              messages |-> afterImg.caller]

\* a build that forwards the first image
buildModelInput_FirstImage(userContent, systemPrompt, imageUrls) ==
    [prompt |-> userContent,
     max_tokens |-> 64000,
     system_prompt |-> IF systemPrompt # <<>>
                       THEN systemPrompt \o <<NL, NL>> \o antiSelfDialoguePrompt
                       ELSE antiSelfDialoguePrompt,
     hasImage |-> Len(imageUrls) > 0,
     image |-> IF Len(imageUrls) > 0 THEN Head(imageUrls) ELSE <<>>]

buildModelInput(userContent, systemPrompt, imageUrls) ==
    [prompt |-> userContent,
     max_tokens |-> 64000,
     system_prompt |-> IF systemPrompt # <<>>
                       THEN systemPrompt \o <<NL, NL>> \o antiSelfDialoguePrompt
                       ELSE antiSelfDialoguePrompt,
     hasImage |-> Len(imageUrls) > 0,
     image |-> IF Len(imageUrls) > 0 THEN Last(imageUrls) ELSE <<>>]

NoInput ==
    [prompt |-> <<>>, max_tokens |-> 0, system_prompt |-> <<>>,
     hasImage |-> FALSE, image |-> <<>>]

(***************************************************************************)
(* Configuration (config.ts) and the HTTP surface.                         *)
(***************************************************************************)
\* the configured secret the bearer key is compared with
AUTH_KEY == <<"k">>

PROXY_MODEL_NAME == <<"proxy-model">>

API_PATHS == [MODELS |-> "/v1/models", CHAT_COMPLETIONS |-> "/v1/chat/completions"]

ERROR_CODES ==
    [INVALID_JSON |-> "invalid_json", INVALID_MESSAGES |-> "invalid_messages",
     MISSING_AUTH_HEADER |-> "missing_auth_header",
     INVALID_AUTH_KEY |-> "invalid_auth_key",
     API_ERROR |-> "api_error", INTERNAL_ERROR |-> "internal_error"]

\* a nullable value: null is None
None == [some |-> FALSE, v |-> <<>>]
Some(x) == [some |-> TRUE, v |-> x]

toLowerCaseChar(c) ==
    CASE c = "B" -> "b"
      [] c = "K" -> "k"
      [] OTHER -> c

toLowerCase(s) == [i \in 1..Len(s) |-> toLowerCaseChar(s[i])]

startsWith(s, prefix) ==
    Len(s) >= Len(prefix) /\ SubSeq(s, 1, Len(prefix)) = prefix

\* String.prototype.substring(start), start counted from 0
substring(s, start) == SubSeq(s, start + 1, Len(s))

NoResponse ==
    [status |-> 0, kind |-> "none", type |-> "", code |-> "",
     wwwAuthenticate |-> FALSE, id |-> 0, model |-> <<>>, content |-> <<>>,
     created |-> 0, prompt_tokens |-> 0, completion_tokens |-> 0,
     total_tokens |-> 0, error |-> 0]

createErrorResponse(status, type, code) ==
    [NoResponse EXCEPT !.status = status, !.kind = "error", !.type = type,
                       !.code = code]

createAuthErrorResponse(code) ==
    [NoResponse EXCEPT !.status = 401, !.kind = "error",
                       !.type = "invalid_request_error", !.code = code,
                       !.wwwAuthenticate = TRUE]

handleCorsPreflightRequest == [NoResponse EXCEPT !.status = 204, !.kind = "cors"]

handleModelsRequest == [NoResponse EXCEPT !.status = 200, !.kind = "models"]

handleNotFoundRequest ==
    createErrorResponse(404, "invalid_request_error", ERROR_CODES.INVALID_JSON)

\* the bearer prefix test of validateApiKey
hasBearerPrefix(authHeader) ==
    authHeader.some /\ authHeader.v # <<>>
    /\ startsWith(toLowerCase(authHeader.v), <<"b", "e", "a", "r", "e", "r", SP>>)

\* variant: the key is compared without regard to case
keyMatches_IgnoreCase(providedKey) == toLowerCase(providedKey) = AUTH_KEY

\* the key comparison of validateApiKey
keyMatches(providedKey) == providedKey = AUTH_KEY

validateApiKey(authHeader) ==
    IF ~hasBearerPrefix(authHeader)
    THEN [isValid |-> FALSE,
          response |-> createAuthErrorResponse(ERROR_CODES.MISSING_AUTH_HEADER)]
    ELSE IF ~keyMatches(substring(authHeader.v, 7))
    THEN [isValid |-> FALSE,
          response |-> createAuthErrorResponse(ERROR_CODES.INVALID_AUTH_KEY)]
    ELSE [isValid |-> TRUE, response |-> NoResponse]

(***************************************************************************)
(* SSE chunks (utils.ts).                                                  *)
(***************************************************************************)
NoUsage ==
    [present |-> FALSE, prompt_tokens |-> 0, completion_tokens |-> 0,
     total_tokens |-> 0]

Usage(p, c, t) ==
    [present |-> TRUE, prompt_tokens |-> p, completion_tokens |-> c,
     total_tokens |-> t]

\* Math.floor(Date.now() / 1000): the wall clock in seconds
VARIABLE clock

\* JavaScript truthiness of a nullable string
truthy(x) == x.some /\ x.v # <<>>

createSSEChunk(id, model, content, role, finish_reason, usage) ==
    [type |-> "chunk", id |-> id, model |-> model, created |-> clock,
     delta |-> [hasRole |-> truthy(role),
                role |-> IF truthy(role) THEN role.v ELSE <<>>,
                hasContent |-> truthy(content),
                content |-> IF truthy(content) THEN content.v ELSE <<>>],
     finish_reason |-> finish_reason,
     usage |-> IF usage.present /\ finish_reason = Some(<<"stop">>)
               THEN usage ELSE NoUsage]

\* the literal line data: [DONE]
DoneSentinel ==
    [type |-> "sentinel", id |-> 0, model |-> <<>>, created |-> 0,
     delta |-> [hasRole |-> FALSE, role |-> <<>>, hasContent |-> FALSE,
                content |-> <<>>],
     finish_reason |-> None, usage |-> NoUsage]

(***************************************************************************)
(* Upstream (the Replicate client): events of a stream, results of a run.  *)
(***************************************************************************)
OutputEvent(d) == [event |-> "output", isString |-> TRUE, data |-> d]
DoneEvent == [event |-> "done", isString |-> TRUE, data |-> <<>>]
LogsEvent == [event |-> "logs", isString |-> TRUE, data |-> <<"l">>]

\* the events an upstream stream may deliver
EventSet ==
    {OutputEvent(<<"a">>), OutputEvent(<<"b">>), OutputEvent(<<>>), DoneEvent,
     LogsEvent}

\* the results an upstream run may return: an array of strings or a scalar
ArrayPrediction(parts) == [kind |-> "array", parts |-> parts, scalar |-> <<>>]
ScalarPrediction(x) == [kind |-> "string", parts |-> <<>>, scalar |-> x]
NullPrediction == [kind |-> "null", parts |-> <<>>, scalar |-> <<>>]
NoPrediction == [kind |-> "none", parts |-> <<>>, scalar |-> <<>>]

PredictionSet ==
    {ArrayPrediction(<<<<"a">>, <<"b">>>>), ScalarPrediction(<<"a">>),
     ScalarPrediction(<<SpecialToken>>), NullPrediction}

\* the error raised by upstream attempt number a (counted from 1) of a request
AttemptError(a) == a

(***************************************************************************)
(* State.                                                                  *)
(***************************************************************************)
VARIABLES
    poolSize,         \* REPLICATE_API_KEYS.length
    currentKeyIndex,  \* the rotator's cursor
    nextCalls,        \* history: number of next() calls made so far
    lastIndex,        \* history: the pool index the latest next() call returned
    pc,               \* where each request's handler stands
    request,          \* the HTTP request of each handler
    response,         \* the HTTP response of each handler
    input,            \* the ModelInput built for each request
    disp,             \* the dispatcher's locals of each request
    enc,              \* the stream encoder's locals and the response stream
    attemptLog,       \* history: the events each upstream attempt delivered
    upEvents          \* number of upstream events delivered so far

vars ==
    <<clock, poolSize, currentKeyIndex, nextCalls, lastIndex, pc, request,
      response, input, disp, enc, attemptLog, upEvents>>

NoRequest ==
    [method |-> "", path |-> "", auth |-> None,
     body |-> [wellFormed |-> FALSE, hasMessages |-> FALSE, messages |-> <<>>,
               stream |-> FALSE, model |-> <<>>]]

NoDisp ==
    [retries |-> 0, replicateClient |-> 0, lastError |-> 0, attempts |-> 0,
     failures |-> 0, failedClient |-> 0, outcome |-> "none", thrown |-> 0,
     prediction |-> NoPrediction]

NoEnc ==
    [isFirstEvent |-> TRUE, completionContent |-> <<>>, out |-> <<>>,
     state |-> "none", error |-> 0]

Init ==
    /\ clock = 0
    /\ poolSize \in 1..MaxPool
    /\ currentKeyIndex = 0
    /\ nextCalls = 0
    /\ lastIndex = 0
    /\ pc = [r \in Reqs |-> "idle"]
    /\ request = [r \in Reqs |-> NoRequest]
    /\ response = [r \in Reqs |-> NoResponse]
    /\ input = [r \in Reqs |-> NoInput]
    /\ disp = [r \in Reqs |-> NoDisp]
    /\ enc = [r \in Reqs |-> NoEnc]
    /\ attemptLog = [r \in Reqs |-> <<>>]
    /\ upEvents = 0

(***************************************************************************)
(* Credential rotator (config.ts getNextReplicateClient).                  *)
(***************************************************************************)
\* variant: the cursor advances without wrapping around
advance_NoWrap(i, n) == i + 1

\* the cursor after one next() call
advance(i, n) == (i + 1) % n

\* one next() call: returns the client at the cursor (currentKeyIndex before
\* the call) and advances the cursor, in one step
getNextReplicateClient ==
    /\ currentKeyIndex' = advance(currentKeyIndex, poolSize)
    /\ nextCalls' = nextCalls + 1
    /\ lastIndex' = currentKeyIndex

\* variant: the retry budget is the pool size, without the cap
maxRetriesOf_NoCap(n) == n

\* ApiService.constructor: maxRetries
maxRetriesOf(n) == Min(n, 3)

maxRetries == maxRetriesOf(poolSize)

\* the retry test of the dispatcher's catch block
hasRetryLeft(retries, limit) == retries < limit

\* variant: the catch block keeps the first error it saw
keepError_First(lastError, error) == IF lastError # 0 THEN lastError ELSE error

\* the error kept by the catch block
keepError(lastError, error) == error

\* the condition of the dispatcher's while loop
loopContinues(retries, limit) == retries <= limit

\* dispatcher entry: fresh locals and the client of attempt 1
dispEntry(key) ==
    [NoDisp EXCEPT !.replicateClient = key, !.attempts = 1]

\* break or loop exit, then throw lastError
dispThrow(d) == [d EXCEPT !.outcome = "threw", !.thrown = d.lastError]

\* variant: the catch block takes a new client after every failure
retriesAfter_Always(d) == TRUE

\* whether the catch block takes a new client from the rotator
retriesAfter(d) == hasRetryLeft(d.retries, maxRetries)

\* the catch block for the failure `error` of the running attempt; key is
\* the client the rotator hands out if the block asks for one
dispCatch(d, error, key) ==
    LET caught == [d EXCEPT !.lastError = keepError(d.lastError, error),
                            !.failures = @ + 1]
        switched == [caught EXCEPT !.failedClient = d.replicateClient,
                                   !.replicateClient = key,
                                   !.retries = @ + 1]
    IN  IF hasRetryLeft(d.retries, maxRetries)
        THEN IF loopContinues(switched.retries, maxRetries)
             THEN [switched EXCEPT !.attempts = @ + 1]
             ELSE dispThrow(switched)
        ELSE dispThrow(caught)

(***************************************************************************)
(* Stream encoder (controllers.ts handleStreamResponse).                   *)
(***************************************************************************)
tokenCount(text) == Len(encode(text))

\* variant: the system prompt is not counted
totalPromptTokens_NoSystem(inp) == tokenCount(inp.prompt)

\* promptTokens + systemPromptTokens
totalPromptTokens(inp) ==
    tokenCount(inp.prompt)
    + (IF inp.system_prompt # <<>> THEN tokenCount(inp.system_prompt) ELSE 0)

\* variant: the role announcement is sent on every event
announceRole_EveryEvent(e, id, model) ==
    [e EXCEPT !.out = Append(@, createSSEChunk(id, model, None,
                                  Some(<<"assistant">>), None, NoUsage)),
              !.isFirstEvent = FALSE]

\* the role announcement sent on the first event
announceRole(e, id, model) ==
    IF e.isFirstEvent
    THEN [e EXCEPT !.out = Append(@, createSSEChunk(id, model, None,
                                      Some(<<"assistant">>), None, NoUsage)),
                   !.isFirstEvent = FALSE]
    ELSE e

\* variant: a payload equal to the previous chunk's content is not sent again
onOutput_Dedup(e, event, id, model) ==
    IF e.out # <<>> /\ Last(e.out).delta.hasContent
       /\ Last(e.out).delta.content = event.data
    THEN [e EXCEPT !.completionContent = @ \o event.data]
    ELSE [e EXCEPT !.completionContent = @ \o event.data,
                   !.out = Append(@, createSSEChunk(id, model, Some(event.data),
                                                    None, None, NoUsage))]

\* variant: the payload is forwarded but not added to the counted text
onOutput_NotCounted(e, event, id, model) ==
    [e EXCEPT !.out = Append(@, createSSEChunk(id, model, Some(event.data),
                                               None, None, NoUsage))]

\* an output event with a string payload
onOutput(e, event, id, model) ==
    [e EXCEPT !.completionContent = @ \o event.data,
              !.out = Append(@, createSSEChunk(id, model, Some(event.data),
                                               None, None, NoUsage))]

\* variant: the terminal chunk is built without the usage
onDone_NoUsage(e, id, model, inp) ==
    [e EXCEPT !.out = @ \o <<createSSEChunk(id, model, None, None,
                                            Some(<<"stop">>), NoUsage),
                             DoneSentinel>>]

\* a done event
onDone(e, id, model, inp) ==
    LET completionTokens == tokenCount(e.completionContent)
        usageInfo == Usage(totalPromptTokens(inp), completionTokens,
                           totalPromptTokens(inp) + completionTokens)
    IN  [e EXCEPT !.out = @ \o <<createSSEChunk(id, model, None, None,
                                                Some(<<"stop">>), usageInfo),
                                 DoneSentinel>>]

\* the loop ended: controller.close()
closeStream(e) == [e EXCEPT !.state = "closed"]

\* variant: the failure ends the stream with the [DONE] line
errorStream_Done(e, error) ==
    [e EXCEPT !.state = "closed", !.out = Append(@, DoneSentinel)]

\* the catch block: controller.error(error)
errorStream(e, error) == [e EXCEPT !.state = "errored", !.error = error]

\* the body of the for-await loop for one event
handleEvent(e, event, id, model, inp) ==
    LET e1 == announceRole(e, id, model)
    IN  IF event.event = "output" /\ event.isString
        THEN onOutput(e1, event, id, model)
        ELSE IF event.event = "done"
        THEN IF encodeThrows(e1.completionContent)
             THEN errorStream(e1, TokenizerError)
             ELSE onDone(e1, id, model, inp)
        ELSE e1

(***************************************************************************)
(* Batch path (api-service.ts getModelResponse, handleNonStreamResponse).  *)
(***************************************************************************)
\* String(prediction) of a prediction that is no array
String(prediction) ==
    IF prediction.kind = "null" THEN <<"n", "u", "l", "l">>
    ELSE prediction.scalar

\* variant: the parts are joined with a space
predictionText_SpaceJoined(prediction) ==
    IF prediction.kind = "array" THEN join(prediction.parts, <<SP>>)
    ELSE String(prediction)

\* the string returned for an upstream prediction
predictionText(prediction) ==
    IF prediction.kind = "array" THEN join(prediction.parts, <<>>)
    ELSE String(prediction)

completionResponse(id, model, inp, assistantContent) ==
    LET promptTokens == tokenCount(inp.prompt)
        systemPromptTokens ==
            IF inp.system_prompt # <<>> THEN tokenCount(inp.system_prompt) ELSE 0
        completionTokens == tokenCount(assistantContent)
    IN  [NoResponse EXCEPT !.status = 200, !.kind = "completion", !.id = id,
                           !.model = model, !.created = clock,
                           !.content = assistantContent,
                           !.prompt_tokens = promptTokens + systemPromptTokens,
                           !.completion_tokens = completionTokens,
                           !.total_tokens = promptTokens + systemPromptTokens
                                            + completionTokens]

\* variant: the failure is reported as an internal error
apiErrorResponse_Internal(error) ==
    [createErrorResponse(500, "internal_error", ERROR_CODES.INTERNAL_ERROR)
        EXCEPT !.error = error]

\* the catch block of handleNonStreamResponse
apiErrorResponse(error) ==
    [createErrorResponse(500, "api_error", ERROR_CODES.API_ERROR)
        EXCEPT !.error = error]

\* handleNonStreamResponse once the dispatcher has returned the text: the
\* token counts are taken inside its try block
handleNonStreamResponse(id, model, inp, assistantContent) ==
    IF \/ encodeThrows(inp.prompt)
       \/ encodeThrows(inp.system_prompt)
       \/ encodeThrows(assistantContent)
    THEN apiErrorResponse(TokenizerError)
    ELSE completionResponse(id, model, inp, assistantContent)

\* the Response returned by handleStreamResponse
streamResponse(id, model) ==
    [NoResponse EXCEPT !.status = 200, !.kind = "stream", !.id = id,
                       !.model = model]

(***************************************************************************)
(* Router and handler (controllers.ts).                                    *)
(***************************************************************************)
\* variant: the models path answers every method
routeRequest_ModelsAnyMethod(q) ==
    IF q.method = "OPTIONS"
    THEN [next |-> "done", response |-> handleCorsPreflightRequest]
    ELSE IF q.path = API_PATHS.MODELS
    THEN [next |-> "done", response |-> handleModelsRequest]
    ELSE IF q.path = API_PATHS.CHAT_COMPLETIONS /\ q.method = "POST"
    THEN LET authValidation == validateApiKey(q.auth)
         IN  IF ~authValidation.isValid
             THEN [next |-> "done", response |-> authValidation.response]
             ELSE [next |-> "parsing", response |-> NoResponse]
    ELSE [next |-> "done", response |-> handleNotFoundRequest]

\* routeRequest up to the first suspension: the response, or the chat
\* handler waiting for the body
routeRequest(q) ==
    IF q.method = "OPTIONS"
    THEN [next |-> "done", response |-> handleCorsPreflightRequest]
    ELSE IF q.path = API_PATHS.MODELS /\ q.method = "GET"
    THEN [next |-> "done", response |-> handleModelsRequest]
    ELSE IF q.path = API_PATHS.CHAT_COMPLETIONS /\ q.method = "POST"
    THEN LET authValidation == validateApiKey(q.auth)
         IN  IF ~authValidation.isValid
             THEN [next |-> "done", response |-> authValidation.response]
             ELSE [next |-> "parsing", response |-> NoResponse]
    ELSE [next |-> "done", response |-> handleNotFoundRequest]

\* requestBody.model || PROXY_MODEL_NAME
modelNameOf(body) == IF body.model # <<>> THEN body.model ELSE PROXY_MODEL_NAME

\* the token counts handleStreamResponse takes before it builds the stream
promptTokensThrow(inp) ==
    encodeThrows(inp.prompt) \/ encodeThrows(inp.system_prompt)

\* variant: no result of the normalizer is rejected
rejectsMessages_Never(pm) == FALSE

\* the check of handleChatCompletionRequest on the normalizer's result
rejectsMessages(pm) == ~pm.hasContent \/ pm.userContent = <<>>

\* a request, one of `requests`, arrives and is routed
Receive(r, requests) ==
    /\ pc[r] = "idle"
    /\ \E q \in requests :
          /\ request' = [request EXCEPT ![r] = q]
          /\ pc' = [pc EXCEPT ![r] = routeRequest(q).next]
          /\ response' = [response EXCEPT ![r] = routeRequest(q).response]
    /\ UNCHANGED <<clock, poolSize, currentKeyIndex, nextCalls, lastIndex, input, disp, enc,
                   attemptLog, upEvents>>

\* the body has been read: parse, normalize, build the input and enter the
\* dispatcher, which takes the client of the first attempt
ParseBody(r) ==
    /\ pc[r] = "parsing"
    /\ LET requestBody == request[r].body
           pm == processMessages(requestBody)
           inp == buildModelInput(pm.userContent, pm.systemPrompt, pm.imageUrls)
       IN  /\ request' = [request EXCEPT ![r].body.messages =
                              IF requestBody.wellFormed THEN pm.messages ELSE @]
           /\ IF ~requestBody.wellFormed
              THEN /\ response' = [response EXCEPT ![r] =
                          createErrorResponse(400, "invalid_request_error",
                                              ERROR_CODES.INVALID_JSON)]
                   /\ pc' = [pc EXCEPT ![r] = "done"]
                   /\ UNCHANGED <<currentKeyIndex, nextCalls, lastIndex, input, disp, enc,
                                  attemptLog>>
              ELSE IF rejectsMessages(pm)
              THEN /\ response' = [response EXCEPT ![r] =
                          createErrorResponse(400, "invalid_request_error",
                                              ERROR_CODES.INVALID_MESSAGES)]
                   /\ pc' = [pc EXCEPT ![r] = "done"]
                   /\ UNCHANGED <<currentKeyIndex, nextCalls, lastIndex, input, disp, enc,
                                  attemptLog>>
              ELSE IF requestBody.stream /\ promptTokensThrow(inp)
              THEN \* handleStreamResponse throws before it builds the stream
                   /\ input' = [input EXCEPT ![r] = inp]
                   /\ response' = [response EXCEPT ![r] =
                          createErrorResponse(500, "internal_error",
                                              ERROR_CODES.INTERNAL_ERROR)]
                   /\ pc' = [pc EXCEPT ![r] = "done"]
                   /\ UNCHANGED <<currentKeyIndex, nextCalls, lastIndex, disp, enc,
                                  attemptLog>>
              ELSE /\ input' = [input EXCEPT ![r] = inp]
                   /\ getNextReplicateClient
                   /\ disp' = [disp EXCEPT ![r] = dispEntry(currentKeyIndex)]
                   /\ attemptLog' = [attemptLog EXCEPT ![r] = <<<<>>>>]
                   /\ IF requestBody.stream
                      THEN /\ pc' = [pc EXCEPT ![r] = "streaming"]
                           /\ enc' = [enc EXCEPT ![r] = [NoEnc EXCEPT !.state = "open"]]
                           /\ response' = [response EXCEPT ![r] =
                                  streamResponse(r, modelNameOf(requestBody))]
                      ELSE /\ pc' = [pc EXCEPT ![r] = "running"]
                           /\ UNCHANGED <<enc, response>>
    /\ UNCHANGED <<clock, poolSize, upEvents>>

\* the upstream run of a batch request returns a prediction
RunResolve(r, prediction) ==
    /\ pc[r] = "running"
    /\ disp' = [disp EXCEPT ![r].outcome = "returned",
                             ![r].prediction = prediction]
    /\ response' = [response EXCEPT ![r] =
           handleNonStreamResponse(r, modelNameOf(request[r].body), input[r],
                                   predictionText(prediction))]
    /\ pc' = [pc EXCEPT ![r] = "done"]
    /\ UNCHANGED <<clock, poolSize, currentKeyIndex, nextCalls, lastIndex, request, input, enc,
                   attemptLog, upEvents>>

\* the upstream run of a batch request fails
RunReject(r) ==
    /\ pc[r] = "running"
    /\ LET after == dispCatch(disp[r], AttemptError(disp[r].attempts),
                              currentKeyIndex)
       IN  /\ disp' = [disp EXCEPT ![r] = after]
           /\ IF retriesAfter(disp[r])
              THEN getNextReplicateClient
              ELSE UNCHANGED <<currentKeyIndex, nextCalls, lastIndex>>
           /\ IF after.outcome = "threw"
              THEN /\ response' = [response EXCEPT ![r] =
                          apiErrorResponse(after.thrown)]
                   /\ pc' = [pc EXCEPT ![r] = "done"]
                   /\ UNCHANGED attemptLog
              ELSE /\ attemptLog' = [attemptLog EXCEPT ![r] = Append(@, <<>>)]
                   /\ UNCHANGED <<pc, response>>
    /\ UNCHANGED <<clock, poolSize, request, input, enc, upEvents>>

\* the upstream stream delivers an event, which the encoder handles
StreamEvent(r, event, limit) ==
    /\ pc[r] = "streaming"
    /\ upEvents < limit
    /\ upEvents' = upEvents + 1
    /\ attemptLog' = [attemptLog EXCEPT ![r][Len(attemptLog[r])] = Append(@, event)]
    /\ enc' = [enc EXCEPT ![r] =
           handleEvent(@, event, r, modelNameOf(request[r].body), input[r])]
    /\ pc' = [pc EXCEPT ![r] = IF enc'[r].state = "errored" THEN "done" ELSE @]
    /\ UNCHANGED <<clock, poolSize, currentKeyIndex, nextCalls, lastIndex, request,
                   response, input, disp>>

\* the upstream stream ends without failure
StreamEnd(r) ==
    /\ pc[r] = "streaming"
    /\ disp' = [disp EXCEPT ![r].outcome = "returned"]
    /\ enc' = [enc EXCEPT ![r] = closeStream(@)]
    /\ pc' = [pc EXCEPT ![r] = "done"]
    /\ UNCHANGED <<clock, poolSize, currentKeyIndex, nextCalls, lastIndex, request, response, input,
                   attemptLog, upEvents>>

\* the upstream stream fails
StreamFail(r) ==
    /\ pc[r] = "streaming"
    /\ LET after == dispCatch(disp[r], AttemptError(disp[r].attempts),
                              currentKeyIndex)
       IN  /\ disp' = [disp EXCEPT ![r] = after]
           /\ IF retriesAfter(disp[r])
              THEN getNextReplicateClient
              ELSE UNCHANGED <<currentKeyIndex, nextCalls, lastIndex>>
           /\ IF after.outcome = "threw"
              THEN /\ enc' = [enc EXCEPT ![r] = errorStream(@, after.thrown)]
                   /\ pc' = [pc EXCEPT ![r] = "done"]
                   /\ UNCHANGED attemptLog
              ELSE /\ attemptLog' = [attemptLog EXCEPT ![r] = Append(@, <<>>)]
                   /\ UNCHANGED <<pc, enc>>
    /\ UNCHANGED <<clock, poolSize, request, response, input, upEvents>>

\* a second passes between two chunks of a response stream
Tick ==
    /\ clock < MaxClock
    /\ \E r \in Reqs : pc[r] = "streaming" /\ enc[r].out # <<>>
    /\ clock' = clock + 1
    /\ UNCHANGED <<poolSize, currentKeyIndex, nextCalls, lastIndex, pc, request,
                   response, input, disp, enc, attemptLog, upEvents>>

(***************************************************************************)
(* Requests drawn by the specifications.                                   *)
(***************************************************************************)
Body(messages, stream, model) ==
    [wellFormed |-> TRUE, hasMessages |-> TRUE, messages |-> messages,
     stream |-> stream, model |-> model]

MalformedBody == NoRequest.body

NoMessagesBody ==
    [wellFormed |-> TRUE, hasMessages |-> FALSE, messages |-> <<>>,
     stream |-> FALSE, model |-> <<>>]

Bearer(key) == Some(<<"B", "e", "a", "r", "e", "r", SP>> \o key)

Req(method, path, auth, body) ==
    [method |-> method, path |-> path, auth |-> auth, body |-> body]

Hello == <<StrMsg("user", <<"h">>)>>

\* the requests of the concurrent specification
SpecRequests ==
    {Req("OPTIONS", "/other", None, MalformedBody),
     Req("GET", "/v1/models", None, MalformedBody),
     Req("GET", "/other", None, MalformedBody),
     Req("POST", "/v1/chat/completions", None, Body(Hello, TRUE, <<>>)),
     Req("POST", "/v1/chat/completions", Bearer(<<"w">>), Body(Hello, FALSE, <<>>)),
     Req("POST", "/v1/chat/completions", Bearer(<<"k">>), MalformedBody),
     Req("POST", "/v1/chat/completions", Bearer(<<"k">>),
         Body(<<StrMsg("system", <<"h">>)>>, TRUE, <<>>)),
     Req("POST", "/v1/chat/completions", Bearer(<<"k">>), Body(Hello, TRUE, <<>>)),
     Req("POST", "/v1/chat/completions", Bearer(<<"k">>), Body(Hello, FALSE, <<>>))}

\* the requests of a request alone: those above, and requests whose
\* normalization or token count faults
OneRequests ==
    SpecRequests
    \cup {Req("POST", "/v1/chat/completions", Bearer(<<"k">>),
               Body(<<Hello[1], NullMsg>>, FALSE, <<>>))}
    \cup {Req("POST", "/v1/chat/completions", Bearer(<<"k">>),
               Body(<<StrMsg("user", <<SpecialToken>>)>>, stream, <<>>)) :
            stream \in BOOLEAN}

\* the results of the upstream runs of concurrent requests
SharedPredictions ==
    {ArrayPrediction(<<<<"a">>, <<"b">>>>), ScalarPrediction(<<"a">>)}

Next ==
    \E r \in Reqs :
        \/ Receive(r, SpecRequests)
        \/ ParseBody(r)
        \/ \E prediction \in SharedPredictions : RunResolve(r, prediction)
        \/ RunReject(r)
        \/ \E event \in EventSet : StreamEvent(r, event, MaxSharedEvents)
        \/ StreamEnd(r)
        \/ StreamFail(r)

Spec == Init /\ [][Next]_vars

\* one request alone
NextOne ==
    \/ Receive(1, OneRequests)
    \/ ParseBody(1)
    \/ \E prediction \in PredictionSet : RunResolve(1, prediction)
    \/ RunReject(1)
    \/ \E event \in EventSet : StreamEvent(1, event, MaxEvents)
    \/ StreamEnd(1)
    \/ StreamFail(1)

SpecOne == Init /\ [][NextOne]_vars

\* one request alone, every upstream attempt of which eventually returns,
\* fails or ends its event stream
AttemptEnds(r) ==
    \/ \E prediction \in PredictionSet : RunResolve(r, prediction)
    \/ RunReject(r)
    \/ StreamEnd(r)
    \/ StreamFail(r)

SpecLive == Init /\ [][NextOne]_vars /\ WF_vars(AttemptEnds(1))

\* one request alone, with the clock advancing
NextTimed == NextOne \/ Tick

SpecTimed == Init /\ [][NextTimed]_vars

(***************************************************************************)
(* The request space of one handler: every header with every body.  The    *)
(* upstream does not answer in this specification.                         *)
(***************************************************************************)
Roles == {"system", "user", "assistant"}

Strings == {<<>>, <<SP>>, <<"h">>}

ItemArrays ==
    {<<>>,
     <<TextItem(<<"h">>)>>,
     <<TextItem(<<"h">>), ImageItem(<<"u2">>)>>,
     <<ImageItem(<<"u2">>), ImageItem(<<"u1">>)>>}

Messages ==
    {StrMsg(role, str) : role \in Roles, str \in Strings}
    \cup {ArrMsg(role, items) : role \in Roles, items \in ItemArrays}

Conversations == UNION {[1..n -> Messages] : n \in 0..MaxMsgs}

Bodies ==
    {MalformedBody, NoMessagesBody, Body(Hello, FALSE, <<"m">>),
     Body(Hello, TRUE, <<"m">>)}
    \cup {Body(messages, stream, <<>>) :
            messages \in Conversations, stream \in BOOLEAN}
    \cup {Body(<<NullMsg>>, FALSE, <<>>), Body(<<Hello[1], NullMsg>>, TRUE, <<>>)}

Headers ==
    {None, Some(<<>>), Bearer(<<"k">>), Bearer(<<"w">>), Bearer(<<"K">>),
     Some(<<"B", "e", "a", "r", "e", "r">>),
     Some(<<"b", "e", "a", "r", "e", "r", SP, "k">>),
     Some(<<"B", "e", "a", "r", "e", "r", "k">>),
     Some(<<"B", "a", "s", "i", "c", SP, "k">>)}

AllRequests ==
    {Req("POST", "/v1/chat/completions", auth, body) :
        auth \in Headers, body \in Bodies}
    \cup {Req(method, path, auth, MalformedBody) :
            method \in {"OPTIONS", "GET", "POST", "DELETE"},
            path \in {"/v1/models", "/v1/chat/completions", "/other"},
            auth \in {None, Bearer(<<"k">>)}}

NextReq ==
    \/ Receive(1, AllRequests)
    \/ ParseBody(1)

SpecReq == Init /\ [][NextReq]_vars

(***************************************************************************)
(* Properties.                                                             *)
(***************************************************************************)
IsChat(q) == q.method = "POST" /\ q.path = "/v1/chat/completions"

IsStreaming(r) == request[r].body.stream

\* every upstream attempt of request r has failed
AllAttemptsFailed(r) ==
    disp[r].attempts >= 1 /\ disp[r].failures = disp[r].attempts

\* C1: a dispatch (batch or stream) whose every upstream attempt fails makes
\* exactly min(N,3)+1 attempts, never more at any time, then surfaces the
\* error of the last attempt and returns no value.
C1_ExhaustedAttempts ==
    \A r \in Reqs :
        /\ disp[r].attempts <= Min(poolSize, 3) + 1
        /\ AllAttemptsFailed(r) =>
              /\ disp[r].attempts = Min(poolSize, 3) + 1
              /\ disp[r].outcome = "threw"
              /\ disp[r].thrown = AttemptError(disp[r].attempts)
              /\ IF IsStreaming(r)
                 THEN /\ enc[r].state = "errored"
                      /\ enc[r].error = AttemptError(disp[r].attempts)
                 ELSE /\ response[r].kind = "error"
                      /\ response[r].error = AttemptError(disp[r].attempts)

C1_Witness ==
    /\ poolSize = 4
    /\ AllAttemptsFailed(1)
    /\ IsStreaming(1)
    /\ Len(enc[1].out) > 0

\* C2: the rotator is a strict global round-robin: next() call number j
\* (from 0, over all requests) returns pool index j mod N, and the cursor has
\* advanced past every value a call has read.
C2_RoundRobin ==
    /\ nextCalls > 0 => lastIndex = (nextCalls - 1) % poolSize
    /\ currentKeyIndex = nextCalls % poolSize

C2_Witness ==
    /\ poolSize = 3
    /\ nextCalls > poolSize
    /\ disp[1].attempts >= 2
    /\ disp[2].attempts >= 2
    /\ pc[1] \in {"running", "streaming"}
    /\ pc[2] \in {"running", "streaming"}

\* C3: a retry uses the credential that follows, in pool order, the
\* credential of the attempt that just failed.
C3_RetryTakesFollowingKey ==
    \A r \in Reqs :
        disp[r].retries >= 1 =>
            disp[r].replicateClient = (disp[r].failedClient + 1) % poolSize

IsRoleChunk(c) ==
    /\ c.type = "chunk"
    /\ c.delta.hasRole /\ c.delta.role = <<"assistant">>
    /\ ~c.delta.hasContent
    /\ c.finish_reason = None
    /\ ~c.usage.present

IsContentChunk(c, payload) ==
    /\ c.type = "chunk"
    /\ ~c.delta.hasRole
    /\ c.delta.hasContent /\ c.delta.content = payload
    /\ c.finish_reason = None
    /\ ~c.usage.present

IsTerminalChunk(c) ==
    /\ c.type = "chunk"
    /\ ~c.delta.hasRole /\ ~c.delta.hasContent
    /\ c.finish_reason = Some(<<"stop">>)
    /\ c.usage.present

IsStringOutput(event) == event.event = "output" /\ event.isString

\* request r streamed one attempt that delivered output events with string
\* payloads, then one done event, and ended without failure
CleanStream(r) ==
    /\ pc[r] = "done"
    /\ enc[r].state = "closed"
    /\ Len(attemptLog[r]) = 1
    /\ Len(attemptLog[r][1]) >= 1
    /\ Last(attemptLog[r][1]) = DoneEvent
    /\ \A i \in 1..(Len(attemptLog[r][1]) - 1) : IsStringOutput(attemptLog[r][1][i])

\* C4: a stream of k string output events and one done event yields, in
\* order, the role chunk, k content chunks carrying the payloads, the
\* terminal chunk with finish_reason stop and usage, and the [DONE] line.
C4_StreamRoundTrip ==
    \A r \in Reqs :
        CleanStream(r) =>
            LET log == attemptLog[r][1]
                k == Len(log) - 1
                out == enc[r].out
            IN  /\ Len(out) = k + 3
                /\ IsRoleChunk(out[1])
                /\ \A i \in 1..k : IsContentChunk(out[i + 1], log[i].data)
                /\ IsTerminalChunk(out[k + 2])
                /\ out[k + 3] = DoneSentinel

\* an upstream attempt of request r delivered a done event
DoneDelivered(r) ==
    \E a \in 1..Len(attemptLog[r]) :
        \E i \in 1..Len(attemptLog[r][a]) : attemptLog[r][a][i] = DoneEvent

\* C5: a stream whose upstream ends without ever delivering a done event is
\* put into the error state; it is never closed without the terminal chunk
\* and the [DONE] line.
C5_NoDoneMeansError ==
    \A r \in Reqs :
        (pc[r] = "done" /\ response[r].kind = "stream" /\ ~DoneDelivered(r))
            => enc[r].state = "errored"

\* C6: the [DONE] line is emitted at most once and nothing follows it.
C6_SentinelLast ==
    \A r \in Reqs :
        \A i \in 1..Len(enc[r].out) :
            enc[r].out[i].type = "sentinel" => i = Len(enc[r].out)

RECURSIVE Flatten(_)
Flatten(seqs) == IF seqs = <<>> THEN <<>> ELSE Head(seqs) \o Flatten(Tail(seqs))

\* the payloads of the string output events of a sequence of events
RECURSIVE OutputPayloads(_)
OutputPayloads(events) ==
    IF events = <<>> THEN <<>>
    ELSE (IF IsStringOutput(Head(events)) THEN <<Head(events).data>> ELSE <<>>)
         \o OutputPayloads(Tail(events))

\* the content of the chunks of a response stream that are neither the role
\* chunk nor a terminal chunk nor the [DONE] line
RECURSIVE DownstreamContent(_)
DownstreamContent(out) ==
    IF out = <<>> THEN <<>>
    ELSE (IF Head(out).type = "chunk" /\ ~Head(out).delta.hasRole
             /\ Head(out).finish_reason = None
          THEN <<Head(out).delta.content>> ELSE <<>>)
         \o DownstreamContent(Tail(out))

\* C7: the downstream content is, attempt after attempt, what each attempt
\* delivered: the prefix a failed attempt forwarded stays, and the retried
\* attempt is forwarded from its first event.
C7_RetryAppends ==
    \A r \in Reqs :
        DownstreamContent(enc[r].out) = OutputPayloads(Flatten(attemptLog[r]))

C7_Witness ==
    /\ pc[1] = "done"
    /\ enc[1].state = "closed"
    /\ attemptLog[1] = << <<OutputEvent(<<"a">>)>>,
                          <<OutputEvent(<<"b">>), DoneEvent>> >>

\* C8 as claimed: exhausting the retry budget gives status 500 and type
\* api_error, streaming or not.
C8_ExhaustionIs500 ==
    \A r \in Reqs :
        disp[r].outcome = "threw" =>
            response[r].status = 500 /\ response[r].type = "api_error"

\* C8 as amended: exhausting the retry budget gives a non-streaming request
\* status 500 and type api_error; a streaming request keeps its status 200
\* and its stream ends in the error state.
C8_ExhaustionByMode ==
    \A r \in Reqs :
        disp[r].outcome = "threw" =>
            IF IsStreaming(r)
            THEN /\ response[r].status = 200
                 /\ response[r].kind = "stream"
                 /\ enc[r].state = "errored"
            ELSE /\ response[r].status = 500
                 /\ response[r].kind = "error"
                 /\ response[r].type = "api_error"

C8_Witness ==
    /\ disp[1].outcome = "threw"
    /\ ~IsStreaming(1)
    /\ poolSize = 2
    /\ response[1].status = 500

\* the keys a client may send
SentKeys == {<<"k">>, <<"w">>, <<"K">>}

\* C9: a chat-completions request without an Authorization header gets 401
\* missing_auth_header, and one with a bearer key that is not the configured
\* secret gets 401 invalid_auth_key, whatever its body.
C9_AuthRejected ==
    LET q == request[1]
    IN  (pc[1] # "idle" /\ IsChat(q)) =>
            /\ ~q.auth.some =>
                  /\ pc[1] = "done"
                  /\ response[1].status = 401
                  /\ response[1].code = "missing_auth_header"
            /\ (\E key \in SentKeys : key # AUTH_KEY /\ q.auth = Bearer(key)) =>
                  /\ pc[1] = "done"
                  /\ response[1].status = 401
                  /\ response[1].code = "invalid_auth_key"

C9_Witness ==
    /\ pc[1] = "done"
    /\ IsChat(request[1])
    /\ request[1].auth = Bearer(<<"K">>)
    /\ request[1].body = Body(Hello, TRUE, <<>>)
    /\ response[1].code = "invalid_auth_key"

\* a content that is an empty string, a whitespace string or an empty array
IsBlank(msg) ==
    IF msg.isArray THEN msg.items = <<>>
    ELSE \A i \in 1..Len(msg.str) : IsWhitespace(msg.str[i])

\* a conversation without non-system messages, or with blank contents only
EmptyConversation(messages) ==
    \/ \A i \in 1..Len(messages) : messages[i].role = "system"
    \/ \A i \in 1..Len(messages) : IsBlank(messages[i])

\* C10: a conversation without non-system messages, or whose contents are
\* all empty or whitespace-only, is rejected with 400 invalid_messages and no
\* model input is built.
C10_EmptyConversationRejected ==
    LET q == request[1]
    IN  (/\ pc[1] \notin {"idle", "parsing"}
         /\ IsChat(q)
         /\ validateApiKey(q.auth).isValid
         /\ q.body.wellFormed /\ q.body.hasMessages
         /\ EmptyConversation(q.body.messages)) =>
            /\ response[1].status = 400
            /\ response[1].code = "invalid_messages"
            /\ input[1] = NoInput

\* the request has passed normalization and a model input was built
Accepted(r) == input[r] # NoInput

\* positions <<message, item>> of the image_url items in messages of `roles`
ImagePositions(messages, roles) ==
    {p \in (1..Len(messages)) \X (1..MaxItems) :
        /\ messages[p[1]].role \in roles
        /\ messages[p[1]].isArray
        /\ p[2] <= Len(messages[p[1]].items)
        /\ messages[p[1]].items[p[2]].type = "image_url"}

Before(p, q) == p[1] < q[1] \/ (p[1] = q[1] /\ p[2] <= q[2])

\* the input carries exactly the last image among the messages of `roles`,
\* and no image when they hold none
CarriesLastImage(inp, messages, roles) ==
    LET positions == ImagePositions(messages, roles)
    IN  IF positions = {}
        THEN ~inp.hasImage
        ELSE /\ inp.hasImage
             /\ \E p \in positions :
                   /\ \A q \in positions : Before(q, p)
                   /\ inp.image = messages[p[1]].items[p[2]].url

\* C11 (as stated): an accepted conversation with an image_url item in any
\* message yields an input with exactly one image, the last in message order
\* and item order; a conversation with no image yields an input without image.
C11_LastImageOfAnyMessage ==
    Accepted(1) => CarriesLastImage(input[1], request[1].body.messages, Roles)

\* C11 (amended): an accepted conversation with an image_url item in a
\* user-role message yields an input with exactly one image, the last one of
\* the user-role messages in message order and item order; a conversation
\* with no image in a user-role message yields an input without image.
C11_LastImageOfUserMessages ==
    Accepted(1) => CarriesLastImage(input[1], request[1].body.messages, {"user"})

C11_Witness ==
    /\ Accepted(1)
    /\ request[1].body.messages =
          <<ArrMsg("user", <<TextItem(<<"h">>), ImageItem(<<"u2">>)>>),
            ArrMsg("user", <<ImageItem(<<"u2">>), ImageItem(<<"u1">>)>>)>>
    /\ input[1].image = <<"u1">>

\* the chunks of a response stream that are neither the role chunk nor a
\* terminal chunk nor the [DONE] line: one per forwarded output event
RECURSIVE OutputChunks(_)
OutputChunks(out) ==
    IF out = <<>> THEN <<>>
    ELSE (IF Head(out).type = "chunk" /\ ~Head(out).delta.hasRole
             /\ Head(out).finish_reason = None
          THEN <<Head(out)>> ELSE <<>>)
         \o OutputChunks(Tail(out))

\* C12: the delta of a chunk holds exactly the keys of role and content
\* whose value was passed non-null: every output event with a string payload,
\* the empty string included, yields a chunk whose delta holds content equal
\* to the payload and no role, and only a chunk built from a null role and a
\* null content (the terminal chunk) has the delta {}.
C12_DeltaKeys ==
    \A r \in Reqs :
        LET chunks == OutputChunks(enc[r].out)
            payloads == OutputPayloads(Flatten(attemptLog[r]))
        IN  /\ Len(chunks) = Len(payloads)
            /\ \A i \in 1..Len(chunks) :
                  /\ chunks[i].delta.hasContent
                  /\ chunks[i].delta.content = payloads[i]
                  /\ ~chunks[i].delta.hasRole
            /\ \A i \in 1..Len(enc[r].out) :
                  LET c == enc[r].out[i]
                  IN  (c.type = "chunk" /\ ~c.delta.hasRole /\ ~c.delta.hasContent)
                          => c.finish_reason # None

\* C13: all chunks of one streaming response carry the same id, the same
\* model and the same created timestamp, also when the clock advances
\* between two emissions.
C13_ChunkFieldsConstant ==
    \A r \in Reqs :
        \A i, j \in 1..Len(enc[r].out) :
            LET c == enc[r].out[i]
                d == enc[r].out[j]
            IN  (c.type = "chunk" /\ d.type = "chunk") =>
                    /\ c.id = d.id
                    /\ c.model = d.model
                    /\ c.created = d.created

\* the part of C13 on id and model
C13_IdAndModelConstant ==
    \A r \in Reqs :
        \A i \in 1..Len(enc[r].out) :
            enc[r].out[i].type = "chunk" =>
                /\ enc[r].out[i].id = response[r].id
                /\ enc[r].out[i].model = response[r].model

\* C14: a chunk carries usage if and only if it is a terminal chunk, with
\* finish_reason "stop"; a chunk with a role or a content has finish_reason
\* null and no usage.
C14_UsageOnTerminalOnly ==
    \A r \in Reqs :
        \A i \in 1..Len(enc[r].out) :
            LET c == enc[r].out[i]
            IN  c.type = "chunk" =>
                   /\ c.usage.present <=> c.finish_reason = Some(<<"stop">>)
                   /\ (c.delta.hasRole \/ c.delta.hasContent) =>
                          (c.finish_reason = None /\ ~c.usage.present)

C14_Witness ==
    /\ Len(enc[1].out) = 4
    /\ enc[1].out[1].delta.hasRole
    /\ enc[1].out[2].delta.hasContent
    /\ enc[1].out[3].finish_reason = Some(<<"stop">>)
    /\ enc[1].out[3].usage.present
    /\ enc[1].out[4] = DoneSentinel

\* usage u counts the prompt and the system prompt of input inp and the
\* completion text
CountsTokens(u, inp, text) ==
    /\ u.prompt_tokens = tokenCount(inp.prompt) + tokenCount(inp.system_prompt)
    /\ u.completion_tokens = tokenCount(text)
    /\ u.total_tokens = u.prompt_tokens + u.completion_tokens

\* C15: in the batch completion and in the terminal chunk of a stream,
\* prompt_tokens is the token count of the prompt plus that of the system
\* prompt, completion_tokens is the token count of the completion text, and
\* total_tokens is their sum.
C15_UsageArithmetic ==
    \A r \in Reqs :
        /\ response[r].kind = "completion" =>
              CountsTokens(response[r], input[r], response[r].content)
        /\ \A i \in 1..Len(enc[r].out) :
              enc[r].out[i].usage.present =>
                  CountsTokens(enc[r].out[i].usage, input[r],
                      Flatten(DownstreamContent(SubSeq(enc[r].out, 1, i - 1))))

C15_Witness ==
    /\ attemptLog[1] = <<<<OutputEvent(<<"a">>), OutputEvent(<<"a">>), DoneEvent>>>>
    /\ Len(enc[1].out) = 5
    /\ enc[1].out[4].usage.present
    /\ enc[1].out[4].usage.completion_tokens = 1
    /\ enc[1].out[4].usage.prompt_tokens > tokenCount(input[1].prompt)

\* C16: normalization never mutates the caller's messages: when
\* processMessages has returned, with a result or without one,
\* requestBody.messages has the same length and holds the same messages in the
\* same order, system messages included, with the same content items, image
\* items included.
C16_CallerMessagesKept ==
    [][\A r \in Reqs :
          pc[r] = "parsing" =>
              request'[r].body.messages = request[r].body.messages]_vars

C16_Witness ==
    /\ Accepted(1)
    /\ request[1].body.messages =
          <<StrMsg("system", <<"h">>),
            ArrMsg("user", <<TextItem(<<"h">>), ImageItem(<<"u2">>)>>)>>
    /\ input[1].image = <<"u2">>
    /\ input[1].prompt = <<"user", ":", SP, "h", NL>> \o antiEchoLine

\* the texts of the text items of a content array, in order
TextsOf(items) ==
    LET texts == SelectSeq(items, LAMBDA item : item.type = "text")
    IN  [i \in 1..Len(texts) |-> texts[i].text]

RECURSIVE SpaceJoined(_)
SpaceJoined(texts) ==
    IF texts = <<>> THEN <<>>
    ELSE IF Len(texts) = 1 THEN texts[1]
    ELSE texts[1] \o <<SP>> \o SpaceJoined(Tail(texts))

\* the line "<role>: <text>\n" of one message
LineOf(message) ==
    <<message.role, ":", SP>>
    \o (IF message.isArray THEN SpaceJoined(TextsOf(message.items))
        ELSE message.str)
    \o <<NL>>

HasEmptyString(message) == ~message.isArray /\ message.str = <<>>

\* one line per message, in order; with skipEmpty, a message whose content
\* is the empty string has no line
RECURSIVE Lines(_, _)
Lines(messages, skipEmpty) ==
    IF messages = <<>> THEN <<>>
    ELSE (IF skipEmpty /\ HasEmptyString(Head(messages)) THEN <<>>
          ELSE LineOf(Head(messages)))
         \o Lines(Tail(messages), skipEmpty)

\* the prompt of a conversation: the lines of its non-system messages, then
\* the directive line iff the last non-system message has role user
PromptOf(messages, skipEmpty) ==
    LET turns == SelectSeq(messages, LAMBDA m : m.role # "system")
    IN  Lines(turns, skipEmpty)
        \o (IF turns # <<>> /\ turns[Len(turns)].role = "user"
            THEN antiEchoLine ELSE <<>>)

\* C17 (as stated): the prompt of an accepted request is one line
\* "<role>: <text>\n" per non-system message in the original order, followed
\* by the directive line iff the last non-system message has role user; no
\* system message and no image item appears in it.
C17_OneLinePerMessage ==
    Accepted(1) => input[1].prompt = PromptOf(request[1].body.messages, FALSE)

\* C17 (amended): as stated, for the non-system messages whose content is a
\* non-empty string or an array; a message whose content is the empty string
\* has no line.
C17_OneLinePerNonEmptyMessage ==
    Accepted(1) => input[1].prompt = PromptOf(request[1].body.messages, TRUE)

C17_Witness ==
    /\ Accepted(1)
    /\ request[1].body.messages =
          <<ArrMsg("assistant", <<TextItem(<<"h">>), ImageItem(<<"u2">>)>>),
            StrMsg("user", <<>>)>>
    /\ input[1].prompt = <<"assistant", ":", SP, "h", NL>> \o antiEchoLine

\* C18: routing is total and exclusive: every OPTIONS request gets 204
\* whatever its path and without authentication; GET /v1/models gets 200 with
\* the model list; POST /v1/chat/completions goes to the chat handler; every
\* other method and path gets 404 with a structured error body; no route but
\* the chat route calls the upstream or advances the rotator.
C18_Routing ==
    LET q == request[1]
        res == response[1]
    IN  pc[1] # "idle" =>
          /\ q.method = "OPTIONS" => (res.status = 204 /\ res.kind = "cors")
          /\ (q.method = "GET" /\ q.path = "/v1/models") =>
                (res.status = 200 /\ res.kind = "models")
          /\ IsChat(q) =>
                (res.kind \notin {"cors", "models"} /\ res.status # 404)
          /\ (/\ q.method # "OPTIONS"
              /\ ~(q.method = "GET" /\ q.path = "/v1/models")
              /\ ~IsChat(q)) =>
                /\ res.status = 404
                /\ res.kind = "error"
                /\ res.type = "invalid_request_error"
          /\ ~IsChat(q) =>
                /\ pc[1] = "done"
                /\ nextCalls = 0
                /\ disp[1] = NoDisp
                /\ input[1] = NoInput

C18_Witness ==
    /\ pc[1] = "done"
    /\ request[1].method = "POST"
    /\ request[1].path = "/v1/models"
    /\ request[1].auth = Bearer(<<"k">>)
    /\ response[1].status = 404
    /\ nextCalls = 0

\* the chat handler has normalized the messages of request r, one of which
\* is null: reading its role raises a fault inside the normalizer
NormalizationFault(r) ==
    /\ pc[r] \notin {"idle", "parsing"}
    /\ IsChat(request[r])
    /\ validateApiKey(request[r].auth).isValid
    /\ request[r].body.wellFormed /\ request[r].body.hasMessages
    /\ \E i \in 1..Len(request[r].body.messages) :
          request[r].body.messages[i].isNull

\* the response encoding of request r has counted the tokens of a text that
\* holds a special token: the prompt, or the completion of a batch request
EncodingFault(r) ==
    /\ pc[r] = "done"
    /\ Accepted(r)
    /\ \/ IsStreaming(r) /\ encodeThrows(input[r].prompt)
       \/ /\ ~IsStreaming(r)
          /\ disp[r].outcome = "returned"
          /\ \/ encodeThrows(input[r].prompt)
             \/ encodeThrows(predictionText(disp[r].prediction))

IsInternalError(res) ==
    res.status = 500 /\ res.kind = "error" /\ res.type = "internal_error"

\* C19: a fault raised inside normalization or inside response encoding, the
\* token counting of the batch path included, is caught at the boundary of
\* the top-level handler and answered with 500 internal_error, never with
\* 400 invalid_messages or 500 api_error.
C19_FaultsAreInternalErrors ==
    \A r \in Reqs :
        (NormalizationFault(r) \/ EncodingFault(r)) => IsInternalError(response[r])

\* the part of C19 that holds: a fault of the token counts taken before the
\* stream is built
C19_StreamPromptFault ==
    \A r \in Reqs :
        (EncodingFault(r) /\ IsStreaming(r)) => IsInternalError(response[r])

\* C20: on the batch path a prediction that is a sequence of strings becomes
\* their concatenation in order with no separator, and a scalar prediction
\* becomes its string form.
C20_BatchText ==
    \A r \in Reqs :
        response[r].kind = "completion" =>
            LET prediction == disp[r].prediction
            IN  /\ prediction.kind = "array" =>
                      response[r].content = Flatten(prediction.parts)
                /\ prediction.kind = "string" =>
                      response[r].content = prediction.scalar
                /\ prediction.kind = "null" =>
                      response[r].content = <<"n", "u", "l", "l">>

C20_Witness ==
    /\ response[1].kind = "completion"
    /\ disp[1].prediction = ArrayPrediction(<<<<"a">>, <<"b">>>>)
    /\ response[1].content = <<"a", "b">>

\* the positions of the role-announcement chunks of a response stream
RolePositions(out) ==
    {i \in 1..Len(out) :
        /\ out[i].type = "chunk"
        /\ out[i].delta.hasRole
        /\ out[i].delta.role = <<"assistant">>
        /\ out[i].finish_reason = None}

\* the number of events the upstream attempts of request r have delivered
EventsReceived(r) == Len(Flatten(attemptLog[r]))

\* C21: a streaming response that has received an upstream event has
\* emitted exactly one role-announcement chunk, as the first item of the
\* stream, before every content and terminal chunk, also when the dispatcher
\* has restarted the upstream stream after a failure; a response that has
\* received no upstream event has emitted no role chunk.
C21_OneRoleChunkFirst ==
    \A r \in Reqs :
        response[r].kind = "stream" =>
            IF EventsReceived(r) >= 1
            THEN RolePositions(enc[r].out) = {1}
            ELSE enc[r].out = <<>>

C21_Witness ==
    /\ response[1].kind = "stream"
    /\ Len(attemptLog[1]) = 2
    /\ attemptLog[1][1] = <<LogsEvent>>
    /\ attemptLog[1][2] = <<OutputEvent(<<"a">>), DoneEvent>>
    /\ RolePositions(enc[1].out) = {1}
    /\ Len(enc[1].out) = 4

\* the dispatch of request r surfaces its terminal failure in this step
FailsTerminally(r) ==
    disp[r].outcome # "threw" /\ disp'[r].outcome = "threw"

\* C22: when the dispatch of a streaming request fails terminally after a
\* chunk was emitted, the response keeps status 200, the emitted chunks stay
\* as they are, the failure adds no terminal chunk and no [DONE] line, and
\* the stream is left in the error state.
C22_PartialStreamErrors ==
    [][\A r \in Reqs :
          (IsStreaming(r) /\ FailsTerminally(r) /\ enc[r].out # <<>>) =>
              /\ response'[r].status = 200
              /\ response'[r].kind = "stream"
              /\ enc'[r].out = enc[r].out
              /\ enc'[r].state = "errored"
              /\ pc'[r] = "done"]_vars

C22_Witness ==
    /\ poolSize = 1
    /\ pc[1] = "done"
    /\ disp[1].outcome = "threw"
    /\ attemptLog[1] = << <<OutputEvent(<<"a">>)>>, <<OutputEvent(<<"a">>)>> >>
    /\ Len(enc[1].out) = 3
    /\ enc[1].state = "errored"
    /\ response[1].status = 200

\* the Authorization header of q is "Bearer " in any letter case followed by
\* the configured key
AuthPasses(q) ==
    /\ q.auth.some
    /\ Len(q.auth.v) > 7
    /\ toLowerCase(SubSeq(q.auth.v, 1, 7)) = <<"b", "e", "a", "r", "e", "r", SP>>
    /\ SubSeq(q.auth.v, 8, Len(q.auth.v)) = AUTH_KEY

\* request r has made no upstream attempt and has not moved the rotator
NothingDispatched(r) ==
    /\ disp[r] = NoDisp
    /\ attemptLog[r] = <<>>
    /\ input[r] = NoInput
    /\ currentKeyIndex = 0
    /\ nextCalls = 0

\* C23: a chat-completions request rejected before dispatch (401 for the
\* authentication, 400 invalid_json, 400 invalid_messages) makes no upstream
\* attempt and leaves the rotator's cursor where it was; the checks apply in
\* the order authentication, JSON parse, message validation, the first one
\* that fails deciding the response.
C23_RejectedBeforeDispatch ==
    LET q == request[1]
        res == response[1]
        noMessages == ~q.body.hasMessages \/ q.body.messages = <<>>
    IN  (pc[1] \notin {"idle", "parsing"} /\ IsChat(q)) =>
          /\ ~AuthPasses(q) => res.status = 401
          /\ (AuthPasses(q) /\ ~q.body.wellFormed) =>
                (res.status = 400 /\ res.code = "invalid_json")
          /\ (AuthPasses(q) /\ q.body.wellFormed /\ noMessages) =>
                (res.status = 400 /\ res.code = "invalid_messages")
          /\ res.status \in {400, 401} =>
                (pc[1] = "done" /\ NothingDispatched(1))

C23_Witness ==
    /\ pc[1] = "done"
    /\ IsChat(request[1])
    /\ request[1].auth = Bearer(<<"k">>)
    /\ request[1].body = NoMessagesBody
    /\ response[1].code = "invalid_messages"
    /\ NothingDispatched(1)

\* the upstream attempts made so far by all dispatches
RECURSIVE AttemptsOf(_)
AttemptsOf(rs) ==
    IF rs = {} THEN 0
    ELSE LET r == CHOOSE x \in rs : TRUE
         IN  disp[r].attempts + AttemptsOf(rs \ {r})

\* C24: the rotator's next() calls of a dispatch, batch or stream, are as
\* many as its upstream attempts, one at entry and one per retry; a dispatch
\* whose attempt number a (counted from 0) succeeds stops at once with a+1
\* attempts and a+1 next() calls and returns the result of that attempt.
C24_CallsEqualAttempts ==
    /\ nextCalls = AttemptsOf(Reqs)
    /\ \A r \in Reqs :
          /\ disp[r].attempts >= 1 => disp[r].attempts = disp[r].retries + 1
          /\ disp[r].outcome = "returned" =>
                /\ pc[r] = "done"
                /\ disp[r].attempts = disp[r].failures + 1
                /\ ~IsStreaming(r) =>
                      /\ disp[r].prediction # NoPrediction
                      /\ response[r].kind = "completion" =>
                            response[r].content
                                = predictionText(disp[r].prediction)

C24_Witness ==
    /\ disp[1].outcome = "returned"
    /\ ~IsStreaming(1)
    /\ disp[1].attempts = 3
    /\ disp[1].failures = 2
    /\ disp[2].attempts = 2
    /\ nextCalls = 5

\* the terminal chunks of a response stream, in emission order
TerminalChunks(out) == SelectSeq(out, LAMBDA c : c.usage.present)

\* the positions of the done events in a sequence of events
DonePositions(events) == {j \in 1..Len(events) : events[j] = DoneEvent}

\* C25: the completion_tokens of a terminal chunk is the token count of the
\* concatenation, in emission order, of the payloads of all output events
\* forwarded before it in that response, those of attempts that failed and
\* were restarted included.
C25_CompletionCountsAllForwarded ==
    \A r \in Reqs :
        LET events == Flatten(attemptLog[r])
            terminals == TerminalChunks(enc[r].out)
        IN  /\ Len(terminals) = Cardinality(DonePositions(events))
            /\ \A j \in DonePositions(events) :
                  LET k == Cardinality({i \in DonePositions(events) : i <= j})
                      forwarded == OutputPayloads(SubSeq(events, 1, j - 1))
                  IN  terminals[k].usage.completion_tokens
                          = tokenCount(Flatten(forwarded))

C25_Witness ==
    /\ attemptLog[1] = << <<OutputEvent(<<"b">>)>>,
                          <<OutputEvent(<<"a">>), DoneEvent>> >>
    /\ Len(TerminalChunks(enc[1].out)) = 1
    /\ TerminalChunks(enc[1].out)[1].usage.completion_tokens = 2

\* the dispatch of request r has ended as the dispatcher allows: within
\* min(N,3)+1 attempts, with the result of its last attempt or with the error
\* of its last attempt, and with no completion when it threw
EndsProperly(r) ==
    /\ disp[r].attempts <= Min(poolSize, 3) + 1
    /\ (pc[r] = "done" /\ disp[r].attempts >= 1) =>
          /\ disp[r].outcome \in {"returned", "threw"}
          /\ disp[r].outcome = "returned" =>
                /\ disp[r].failures = disp[r].attempts - 1
                /\ ~IsStreaming(r) => disp[r].prediction \in PredictionSet
          /\ disp[r].outcome = "threw" =>
                /\ disp[r].failures = disp[r].attempts
                /\ disp[r].thrown = AttemptError(disp[r].attempts)
                /\ disp[r].prediction = NoPrediction
                /\ response[r].kind # "completion"
                /\ \A i \in 1..Len(enc[r].out) : ~enc[r].out[i].usage.present
                       \/ DoneDelivered(r)

\* C26: every dispatch terminates when each of its upstream attempts
\* eventually returns, fails or ends its event stream: within min(N,3)+1
\* attempts it delivers an upstream result or surfaces the error of the most
\* recent failed attempt; it never runs forever and never returns a
\* completion of its own making.
C26_DispatchTerminates ==
    /\ [](\A r \in Reqs : EndsProperly(r))
    /\ \A r \in Reqs : (disp[r].attempts >= 1) ~> (pc[r] = "done")

C26_Witness ==
    /\ poolSize = 2
    /\ pc[1] = "done"
    /\ ~IsStreaming(1)
    /\ disp[1].outcome = "threw"
    /\ disp[1].attempts = 3
    /\ disp[1].thrown = AttemptError(3)

====
